---- MODULE Spec2Model ----
(***************************************************************************)
(* Model of src/src/Resolution.ts: the Resolution router.  The router is   *)
(* constructed once from a configuration, keeps up to three blockchain     *)
(* naming services (ENS, ZNS, CNS) or one API naming service, and routes   *)
(* every public call to the first naming service that supports the         *)
(* canonicalized domain.  The naming services themselves (./ens, ./zns,    *)
(* ./cns, ./unstoppableAPI) are external collaborators: their predicates   *)
(* are fixed per class and their answers are chosen by the environment.    *)
(***************************************************************************)
EXTENDS Integers, Sequences, FiniteSets, TLC

VARIABLES status, blockchain, ens, zns, cns, api, calls, norm, options

vars == <<status, blockchain, ens, zns, cns, api, calls, norm, options>>

(***************************************************************************)
(* Bounds.                                                                 *)
(***************************************************************************)
MaxLen == 2

(***************************************************************************)
(* JavaScript values.  Every value carries its type tag.                   *)
(***************************************************************************)
Undefined == [t |-> "undefined"]

JNull == [t |-> "null"]

Bool(b) == [t |-> "boolean", v |-> b]

Str(s) == [t |-> "string", v |-> s]

Num(n) == [t |-> "number", v |-> n]

Obj(f) == [t |-> "object", f |-> f]

typeof(v) == IF v.t = "null" THEN "object" ELSE v.t

\* the value of an object field that holds undefined
undef == "undefined"

(***************************************************************************)
(* Domain strings are sequences of characters.                             *)
(***************************************************************************)
Chars == {" ", "e", "E", "z"}

toLowerCaseChar(c) == IF c = "E" THEN "e" ELSE c

toLowerCase(s) == [i \in 1..Len(s) |-> toLowerCaseChar(s[i])]

RECURSIVE trimStart(_)
trimStart(s) == IF s # <<>> /\ Head(s) = " " THEN trimStart(Tail(s)) ELSE s

RECURSIVE trimEnd(_)
trimEnd(s) ==
  IF s # <<>> /\ s[Len(s)] = " " THEN trimEnd(SubSeq(s, 1, Len(s) - 1)) ELSE s

trim(s) == trimEnd(trimStart(s))

\* domain ? domain.trim().toLowerCase() : ''
prepareDomain(domain) ==
  IF domain.t = "string" /\ domain.v # <<>>
  THEN Str(toLowerCase(trim(domain.v)))
  ELSE Str(<<>>)

Strings == UNION {[1..n -> Chars] : n \in 0..MaxLen}

RawDomains == {Undefined} \cup {Str(s) : s \in Strings}

(***************************************************************************)
(* normalizeSource                                                         *)
(***************************************************************************)
ConfigError == [t |-> "throw", v |-> "Unsupported configuration"]

\* {provider, ...source}: the fields of source override the provider
spread(provider, source) ==
  LET f == IF source.t = "object" THEN source.f ELSE << >>
  IN  [k \in {"provider"} \cup DOMAIN f |->
         IF k \in DOMAIN f THEN f[k] ELSE provider]

normalizeSourceStringProvider(source, provider) ==
  CASE typeof(source) = "undefined" -> Obj([provider |-> provider])
    [] typeof(source) = "boolean" ->
         IF source.v THEN Obj([provider |-> provider]) ELSE Bool(FALSE)
    [] typeof(source) = "string" ->
         Obj([provider |-> provider, url |-> source.v])
    [] typeof(source) = "object" -> Obj(spread(provider, source))
    [] OTHER -> ConfigError

normalizeSource(source, provider) ==
  CASE typeof(source) = "undefined" -> Obj([provider |-> provider])
    [] typeof(source) = "boolean" ->
         IF source.v THEN Obj([provider |-> provider]) ELSE Bool(FALSE)
    [] typeof(source) = "string" -> Obj([url |-> source.v])
    [] typeof(source) = "object" -> Obj(spread(provider, source))
    [] OTHER -> ConfigError

\* JavaScript truthiness of a normalized source
truthy(v) ==
  CASE v.t = "boolean" -> v.v
    [] v.t = "undefined" -> FALSE
    [] v.t = "null" -> FALSE
    [] OTHER -> TRUE

(***************************************************************************)
(* The naming services.  Each class has a fixed name tag and a fixed       *)
(* supported-extension predicate; the extension of a domain is its last    *)
(* character.  The classes overlap so that priority decides.               *)
(***************************************************************************)
Ens(source) == [t |-> "object", name |-> "ENS", source |-> source]

Zns(source) == [t |-> "object", name |-> "ZNS", source |-> source]

Cns(source) == [t |-> "object", name |-> "CNS", source |-> source]

Udapi(source) == [t |-> "object", name |-> "UDAPI", source |-> Obj([url |-> source])]

DefaultAPI == "https://unstoppabledomains.com/api/v1"

NamingServiceName == {"ENS", "ZNS", "CNS"}

SupportedExts(name) ==
  CASE name = "ENS" -> {"e"}
    [] name = "ZNS" -> {"e", "z"}
    [] name = "CNS" -> {"e", "z"}
    [] name = "UDAPI" -> {"e", "z"}

\* NamingService#isSupportedDomain: pure, synchronous, case sensitive
serviceSupportsDomain(service, domain) ==
  /\ domain.t = "string"
  /\ domain.v # <<>>
  /\ domain.v[Len(domain.v)] \in SupportedExts(service.name)

KnownNetworks == {"mainnet"}

\* NamingService#isSupportedNetwork: the configured network is a known one
serviceSupportsNetwork(service) ==
  \/ "network" \notin DOMAIN service.source.f
  \/ service.source.f["network"] \in KnownNetworks

(***************************************************************************)
(* constructor                                                             *)
(***************************************************************************)
Blockchain(e, z, c, w) ==
  [t |-> "object", ens |-> e, zns |-> z, cns |-> c, web3Provider |-> w]

Instance(st, b, e, z, c, a) ==
  [status |-> st, blockchain |-> b, ens |-> e, zns |-> z, cns |-> c, api |-> a]

constructorBothModes(opts) ==
  LET b0 == IF opts.blockchain = Undefined THEN Bool(TRUE) ELSE opts.blockchain
      a0 == IF opts.api = undef THEN DefaultAPI ELSE opts.api
      b  == IF b0 = Bool(TRUE)
            THEN Blockchain(Undefined, Undefined, Undefined, undef) ELSE b0
      e  == normalizeSource(b.ens, b.web3Provider)
      z  == normalizeSource(b.zns, undef)
      c  == normalizeSource(b.cns, b.web3Provider)
  IN  IF truthy(b0)
      THEN IF e = ConfigError \/ z = ConfigError \/ c = ConfigError
           THEN Instance("failed", FALSE, Undefined, Undefined, Undefined,
                         Undefined)
           ELSE Instance("ready", TRUE,
                         IF truthy(e) THEN Ens(e) ELSE Undefined,
                         IF truthy(z) THEN Zns(z) ELSE Undefined,
                         IF truthy(c) THEN Cns(c) ELSE Undefined,
                         Udapi(a0))
      ELSE Instance("ready", FALSE, Undefined, Undefined, Undefined, Udapi(a0))

constructor(opts) ==
  LET b0 == IF opts.blockchain = Undefined THEN Bool(TRUE) ELSE opts.blockchain
      a0 == IF opts.api = undef THEN DefaultAPI ELSE opts.api
      b  == IF b0 = Bool(TRUE)
            THEN Blockchain(Undefined, Undefined, Undefined, undef) ELSE b0
      e  == normalizeSource(b.ens, b.web3Provider)
      z  == normalizeSource(b.zns, undef)
      c  == normalizeSource(b.cns, b.web3Provider)
  IN  IF truthy(b0)
      THEN IF e = ConfigError \/ z = ConfigError \/ c = ConfigError
           THEN Instance("failed", FALSE, Undefined, Undefined, Undefined,
                         Undefined)
           ELSE Instance("ready", TRUE,
                         IF truthy(e) THEN Ens(e) ELSE Undefined,
                         IF truthy(z) THEN Zns(z) ELSE Undefined,
                         IF truthy(c) THEN Cns(c) ELSE Undefined,
                         Undefined)
      ELSE Instance("ready", FALSE, Undefined, Undefined, Undefined, Udapi(a0))

(***************************************************************************)
(* Outcomes of a call and events a call causes at the naming services.     *)
(***************************************************************************)
Return(v) == [k |-> "return", v |-> v]

ResolutionError(code) == [k |-> "throw", cls |-> "ResolutionError", code |-> code]

Defect == [k |-> "throw", cls |-> "Error", code |-> "defect"]

NoAnswer == [k |-> "none"]

instanceofResolutionError(o) == o.k = "throw" /\ o.cls = "ResolutionError"

ResolutionErrorCode == {"UnsupportedDomain", "NamingServiceDown", "RecordNotFound"}

Pred(to, domain) == [ev |-> "isSupportedDomain", to |-> to, a1 |-> domain, a2 |-> ""]

Op(to, op, a1, a2) == [ev |-> op, to |-> to, a1 |-> a1, a2 |-> a2]

(***************************************************************************)
(* Selection                                                               *)
(***************************************************************************)
getResolutionMethodsCnsFirst ==
  SelectSeq(IF blockchain THEN <<cns, zns, ens>> ELSE <<api>>,
            LAMBDA v : truthy(v))

getResolutionMethods ==
  SelectSeq(IF blockchain THEN <<ens, zns, cns>> ELSE <<api>>,
            LAMBDA v : truthy(v))

RECURSIVE findIndex(_, _, _)
findIndex(ms, domain, i) ==
  IF i > Len(ms) THEN 0
  ELSE IF serviceSupportsDomain(ms[i], domain) THEN i
  ELSE findIndex(ms, domain, i + 1)

\* Array#find tests the methods in order and stops at the first match
getNamingMethod(domain0) ==
  LET domain == prepareDomain(domain0)
      ms == getResolutionMethods
      i  == findIndex(ms, domain, 1)
      n  == IF i = 0 THEN Len(ms) ELSE i
  IN  [log |-> [j \in 1..n |-> Pred(ms[j].name, domain)],
       method |-> IF i = 0 THEN Undefined ELSE ms[i]]

getNamingMethodOrThrowServiceDown(domain0) ==
  LET domain == prepareDomain(domain0)
      m == getNamingMethod(domain)
  IN  [log |-> m.log, method |-> m.method,
       thrown |-> IF ~truthy(m.method)
                  THEN ResolutionError("NamingServiceDown") ELSE NoAnswer]

getNamingMethodOrThrow(domain0) ==
  LET domain == prepareDomain(domain0)
      m == getNamingMethod(domain)
  IN  [log |-> m.log, method |-> m.method,
       thrown |-> IF ~truthy(m.method)
                  THEN ResolutionError("UnsupportedDomain") ELSE NoAnswer]

findNamingServiceFirst(name) ==
  LET ms == getResolutionMethods
  IN  [method |-> IF ms = <<>> THEN Undefined ELSE ms[1],
       thrown |-> IF ms = <<>>
                  THEN ResolutionError("NamingServiceDown") ELSE NoAnswer]

findNamingService(name) ==
  LET ms == getResolutionMethods
      hits == {j \in 1..Len(ms) : ms[j].name = name}
  IN  [method |-> IF hits = {} THEN Undefined
                  ELSE ms[CHOOSE j \in hits : \A h \in hits : j <= h],
       thrown |-> IF hits = {}
                  THEN ResolutionError("NamingServiceDown") ELSE NoAnswer]

(***************************************************************************)
(* Public methods.  Each operator gives the events the call causes at the  *)
(* naming services (log) and its outcome (out), where bout is the answer   *)
(* of the naming service to the forwarded operation, if one is issued.     *)
(***************************************************************************)
forwards(log) == log # <<>> /\ log[Len(log)].ev # "isSupportedDomain"

falsy(v) == v \in {"null", ""}

jsBool(b) == IF b THEN "true" ELSE "false"

\* const method = getNamingMethodOrThrow(domain); return await method.op(domain, a2)
dispatch(domain, op, a2, bout) ==
  LET m == getNamingMethodOrThrow(domain)
  IN  IF m.thrown # NoAnswer
      THEN [log |-> m.log, out |-> m.thrown]
      ELSE [log |-> Append(m.log, Op(m.method.name, op, domain, a2)),
            out |-> bout]

resolve(domain, bout) ==
  LET r == dispatch(prepareDomain(domain), "resolve", "", bout)
  IN  [r EXCEPT !.out = IF @.k = "return" /\ falsy(@.v)
                        THEN Return("UnclaimedDomainResponse") ELSE @]

addressOrThrow(domain, currencyTicker, bout) ==
  dispatch(prepareDomain(domain), "address", currencyTicker, bout)

addressCatchAll(domain, currencyTicker, bout) ==
  LET r == addressOrThrow(prepareDomain(domain), currencyTicker, bout)
  IN  [r EXCEPT !.out = IF @.k = "throw" THEN Return("null") ELSE @]

addressTwice(domain, currencyTicker, bout) ==
  LET r == addressOrThrow(prepareDomain(domain), currencyTicker, bout)
  IN  [log |-> IF forwards(r.log) THEN Append(r.log, r.log[Len(r.log)])
               ELSE r.log,
       out |-> IF instanceofResolutionError(r.out) THEN Return("null")
               ELSE r.out]

address(domain, currencyTicker, bout) ==
  LET r == addressOrThrow(prepareDomain(domain), currencyTicker, bout)
  IN  [r EXCEPT !.out = IF instanceofResolutionError(@) THEN Return("null")
                        ELSE @]

chatId(domain, bout) == dispatch(prepareDomain(domain), "chatId", "", bout)

chatPk(domain, bout) == dispatch(prepareDomain(domain), "chatpk", "", bout)

ipfsHash(domain, bout) == dispatch(prepareDomain(domain), "ipfsHash", "", bout)

httpUrl(domain, bout) == dispatch(prepareDomain(domain), "httpUrl", "", bout)

ipfsRedirect(domain, bout) ==
  dispatch(domain, "record", "ipfs.redirect_domain.value", bout)

email(domain, bout) == dispatch(prepareDomain(domain), "email", "", bout)

resolver(domain, bout) == dispatch(prepareDomain(domain), "resolver", "", bout)

owner(domain, bout) ==
  LET r == dispatch(prepareDomain(domain), "owner", "", bout)
  IN  [r EXCEPT !.out = IF @.k = "return" /\ falsy(@.v)
                        THEN Return("null") ELSE @]

record(domain, recordKey, bout) ==
  dispatch(prepareDomain(domain), "record", recordKey, bout)

getAllKeys(domain, bout) ==
  dispatch(prepareDomain(domain), "getAllKeys", "", bout)

reverse(addr, currencyTicker, bout) ==
  LET s == findNamingService("ENS")
  IN  IF s.thrown # NoAnswer
      THEN [log |-> <<>>, out |-> s.thrown]
      ELSE [log |-> <<Op(s.method.name, "reverse", addr, currencyTicker)>>,
            out |-> bout]

namehash(domain, bout) == dispatch(prepareDomain(domain), "namehash", "", bout)

childhash(parent, label, method, bout) ==
  LET s == findNamingService(method)
  IN  IF s.thrown # NoAnswer
      THEN [log |-> <<>>, out |-> s.thrown]
      ELSE [log |-> <<Op(s.method.name, "childhash", parent, label)>>,
            out |-> bout]

isValidHash(domain, hash, bout) ==
  LET r == namehash(prepareDomain(domain), bout)
  IN  [r EXCEPT !.out = IF @.k = "return" THEN Return(jsBool(@.v = hash))
                        ELSE @]

isSupportedDomain(domain) ==
  LET m == getNamingMethod(prepareDomain(domain))
  IN  [log |-> m.log, out |-> Return(jsBool(truthy(m.method)))]

isSupportedDomainInNetworkAny(domain0) ==
  LET domain == prepareDomain(domain0)
      ms == getResolutionMethods
      hits == {j \in 1..Len(ms) : serviceSupportsDomain(ms[j], domain)}
  IN  [log |-> [j \in 1..Len(ms) |-> Pred(ms[j].name, domain)],
       out |-> Return(jsBool(\E j \in hits : serviceSupportsNetwork(ms[j])))]

isSupportedDomainInNetwork(domain) ==
  LET m == getNamingMethod(prepareDomain(domain))
  IN  IF ~truthy(m.method)
      THEN [log |-> m.log, out |-> Return("false")]
      ELSE [log |-> Append(m.log, Op(m.method.name, "isSupportedNetwork",
                                     Undefined, "")),
            out |-> Return(jsBool(serviceSupportsNetwork(m.method)))]

serviceName(domain0) ==
  LET domain == prepareDomain(domain0)
      m == getNamingMethodOrThrow(domain)
  IN  IF m.thrown # NoAnswer
      THEN [log |-> m.log, out |-> m.thrown]
      ELSE [log |-> Append(m.log, Op(m.method.name, "serviceName", domain, "")),
            out |-> Return(m.method.name)]

(***************************************************************************)
(* Inputs of the calls and answers of the naming services.                 *)
(***************************************************************************)
Callers == {"c1", "c2"}

Tickers == {"ETH", "ZIL"}

RecordKeys == {"crypto.ETH.address"}

Hashes == {"0x01", "0x02"}

Labels == {"label"}

Addresses == {Str(<<"0", "x">>)}

AsyncOps ==
  {"resolve", "address", "chatId", "chatPk", "ipfsHash", "httpUrl",
   "ipfsRedirect", "email", "addressOrThrow", "resolver", "owner", "record",
   "reverse", "getAllKeys"}

Errors == {ResolutionError(code) : code \in ResolutionErrorCode} \cup {Defect}

\* what the naming service may answer to the operation forwarded by op
Answers(op) ==
  CASE op = "resolve" -> {Return("bundle"), Return("null")} \cup Errors
    [] op = "owner" -> {Return("0xowner"), Return("null")} \cup Errors
    [] op = "reverse" -> {Return("name.e"), Return("null")} \cup Errors
    [] op \in {"namehash", "childhash", "isValidHash"} ->
         {Return(h) : h \in Hashes} \cup Errors
    [] op \in {"isSupportedDomain", "isSupportedDomainInNetwork",
               "serviceName"} -> {NoAnswer}
    [] OTHER -> {Return("value")} \cup Errors

Run(op, a1, a2, a3, bout) ==
  CASE op = "resolve" -> resolve(a1, bout)
    [] op = "address" -> address(a1, a2, bout)
    [] op = "chatId" -> chatId(a1, bout)
    [] op = "chatPk" -> chatPk(a1, bout)
    [] op = "ipfsHash" -> ipfsHash(a1, bout)
    [] op = "httpUrl" -> httpUrl(a1, bout)
    [] op = "ipfsRedirect" -> ipfsRedirect(a1, bout)
    [] op = "email" -> email(a1, bout)
    [] op = "addressOrThrow" -> addressOrThrow(a1, a2, bout)
    [] op = "resolver" -> resolver(a1, bout)
    [] op = "owner" -> owner(a1, bout)
    [] op = "record" -> record(a1, a2, bout)
    [] op = "reverse" -> reverse(a1, a2, bout)
    [] op = "namehash" -> namehash(a1, bout)
    [] op = "childhash" -> childhash(a1, a2, a3, bout)
    [] op = "isValidHash" -> isValidHash(a1, a2, bout)
    [] op = "isSupportedDomain" -> isSupportedDomain(a1)
    [] op = "isSupportedDomainInNetwork" -> isSupportedDomainInNetwork(a1)
    [] op = "serviceName" -> serviceName(a1)
    [] op = "getAllKeys" -> getAllKeys(a1, bout)

(***************************************************************************)
(* State machine.                                                          *)
(***************************************************************************)
Idle == [st |-> "idle"]

NoNorm == [st |-> "none"]

NoOptions == [st |-> "none"]

Call(st, op, a1, a2, a3, log, cont, answer, out) ==
  [st |-> st, op |-> op, a1 |-> a1, a2 |-> a2, a3 |-> a3, log |-> log,
   cont |-> cont, answer |-> answer, out |-> out]

readonlyFieldsDropEns ==
  /\ ens' = Undefined
  /\ UNCHANGED <<status, blockchain, zns, cns, api>>

\* the fields of the instance are readonly: no method assigns them
readonlyFields == UNCHANGED <<status, blockchain, ens, zns, cns, api>>

\* The synchronous part of a call: selection, then the forwarded operation
\* is issued.  plan[b] is what the method does when the naming service
\* answers b.  A synchronous method, and a call that fails or answers
\* before forwarding, is settled at once; otherwise the call is pending.
Invoke(c, op, a1, a2, a3, plan) ==
  /\ status = "ready"
  /\ calls[c].st = "idle"
  /\ IF forwards(plan[NoAnswer].log) /\ op \in AsyncOps
     THEN calls' = [calls EXCEPT ![c] =
            Call("pending", op, a1, a2, a3, plan[NoAnswer].log,
                 [b \in Answers(op) |-> plan[b].out], NoAnswer, NoAnswer)]
     ELSE \E b \in (IF forwards(plan[NoAnswer].log) THEN Answers(op)
                    ELSE {NoAnswer}) :
            calls' = [calls EXCEPT ![c] =
              Call("settled", op, a1, a2, a3, plan[b].log, << >>, b,
                   plan[b].out)]
  /\ readonlyFields
  /\ UNCHANGED <<norm, options>>

\* the naming service answers the forwarded operation of a pending call
Settle(c) ==
  /\ calls[c].st = "pending"
  /\ \E b \in DOMAIN calls[c].cont :
       calls' = [calls EXCEPT ![c] =
         [@ EXCEPT !.st = "settled", !.cont = << >>, !.answer = b,
                   !.out = calls[c].cont[b]]]
  /\ readonlyFields
  /\ UNCHANGED <<norm, options>>

\* the caller takes the outcome of its settled call
Collect(c) ==
  /\ calls[c].st = "settled"
  /\ calls' = [calls EXCEPT ![c] = Idle]
  /\ readonlyFields
  /\ UNCHANGED <<norm, options>>

AnswersTo(op) == Answers(op) \cup {NoAnswer}

Resolve(c, D) ==
  \E d \in D :
    Invoke(c, "resolve", d, "", "",
           [b \in AnswersTo("resolve") |-> resolve(d, b)])

Address(c, D) ==
  \E d \in D, t \in Tickers :
    Invoke(c, "address", d, t, "",
           [b \in AnswersTo("address") |-> address(d, t, b)])

ChatId(c, D) ==
  \E d \in D :
    Invoke(c, "chatId", d, "", "",
           [b \in AnswersTo("chatId") |-> chatId(d, b)])

ChatPk(c, D) ==
  \E d \in D :
    Invoke(c, "chatPk", d, "", "",
           [b \in AnswersTo("chatPk") |-> chatPk(d, b)])

IpfsHash(c, D) ==
  \E d \in D :
    Invoke(c, "ipfsHash", d, "", "",
           [b \in AnswersTo("ipfsHash") |-> ipfsHash(d, b)])

HttpUrl(c, D) ==
  \E d \in D :
    Invoke(c, "httpUrl", d, "", "",
           [b \in AnswersTo("httpUrl") |-> httpUrl(d, b)])

IpfsRedirect(c, D) ==
  \E d \in D :
    Invoke(c, "ipfsRedirect", d, "", "",
           [b \in AnswersTo("ipfsRedirect") |-> ipfsRedirect(d, b)])

Email(c, D) ==
  \E d \in D :
    Invoke(c, "email", d, "", "",
           [b \in AnswersTo("email") |-> email(d, b)])

AddressOrThrow(c, D) ==
  \E d \in D, t \in Tickers :
    Invoke(c, "addressOrThrow", d, t, "",
           [b \in AnswersTo("addressOrThrow") |-> addressOrThrow(d, t, b)])

Resolver(c, D) ==
  \E d \in D :
    Invoke(c, "resolver", d, "", "",
           [b \in AnswersTo("resolver") |-> resolver(d, b)])

Owner(c, D) ==
  \E d \in D :
    Invoke(c, "owner", d, "", "",
           [b \in AnswersTo("owner") |-> owner(d, b)])

Record(c, D) ==
  \E d \in D, k \in RecordKeys :
    Invoke(c, "record", d, k, "",
           [b \in AnswersTo("record") |-> record(d, k, b)])

Reverse(c) ==
  \E a \in Addresses, t \in Tickers :
    Invoke(c, "reverse", a, t, "",
           [b \in AnswersTo("reverse") |-> reverse(a, t, b)])

Namehash(c, D) ==
  \E d \in D :
    Invoke(c, "namehash", d, "", "",
           [b \in AnswersTo("namehash") |-> namehash(d, b)])

Childhash(c) ==
  \E h \in Addresses, l \in Labels, n \in NamingServiceName :
    Invoke(c, "childhash", h, l, n,
           [b \in AnswersTo("childhash") |-> childhash(h, l, n, b)])

IsValidHash(c, D) ==
  \E d \in D, h \in Hashes :
    Invoke(c, "isValidHash", d, h, "",
           [b \in AnswersTo("isValidHash") |-> isValidHash(d, h, b)])

IsSupportedDomain(c, D) ==
  \E d \in D :
    Invoke(c, "isSupportedDomain", d, "", "",
           [b \in AnswersTo("isSupportedDomain") |-> isSupportedDomain(d)])

IsSupportedDomainInNetwork(c, D) ==
  \E d \in D :
    Invoke(c, "isSupportedDomainInNetwork", d, "", "",
           [b \in AnswersTo("isSupportedDomainInNetwork") |->
              isSupportedDomainInNetwork(d)])

ServiceName(c, D) ==
  \E d \in D :
    Invoke(c, "serviceName", d, "", "",
           [b \in AnswersTo("serviceName") |-> serviceName(d)])

GetAllKeys(c, D) ==
  \E d \in D :
    Invoke(c, "getAllKeys", d, "", "",
           [b \in AnswersTo("getAllKeys") |-> getAllKeys(d, b)])

(***************************************************************************)
(* Construction.                                                           *)
(***************************************************************************)
CtorSources ==
  {Undefined, Bool(FALSE), Obj([network |-> "bogus"]), Num(7)}

CtorOptions ==
  [blockchain : {Undefined, Bool(TRUE)} \cup
                {Blockchain(e, z, c, w) :
                   e \in CtorSources, z \in CtorSources, c \in CtorSources,
                   w \in {undef, "web3"}},
   api : {undef}]
  \cup [blockchain : {Bool(FALSE)}, api : {undef, "https://api.example"}]

Construct ==
  /\ status = "new"
  /\ \E opts \in CtorOptions :
       LET i == constructor(opts)
       IN  /\ status' = i.status
           /\ blockchain' = i.blockchain
           /\ ens' = i.ens
           /\ zns' = i.zns
           /\ cns' = i.cns
           /\ api' = i.api
           /\ options' = opts
  /\ UNCHANGED <<calls, norm>>

Init ==
  /\ status = "new"
  /\ blockchain = FALSE
  /\ ens = Undefined
  /\ zns = Undefined
  /\ cns = Undefined
  /\ api = Undefined
  /\ calls = [c \in Callers |-> Idle]
  /\ norm = NoNorm
  /\ options = NoOptions

Next ==
  \/ Construct
  \/ Resolve("c1", RawDomains)
  \/ Address("c1", RawDomains)
  \/ ChatId("c1", RawDomains)
  \/ ChatPk("c1", RawDomains)
  \/ IpfsHash("c1", RawDomains)
  \/ HttpUrl("c1", RawDomains)
  \/ IpfsRedirect("c1", RawDomains)
  \/ Email("c1", RawDomains)
  \/ AddressOrThrow("c1", RawDomains)
  \/ Resolver("c1", RawDomains)
  \/ Owner("c1", RawDomains)
  \/ Record("c1", RawDomains)
  \/ Reverse("c1")
  \/ Namehash("c1", RawDomains)
  \/ Childhash("c1")
  \/ IsValidHash("c1", RawDomains)
  \/ IsSupportedDomain("c1", RawDomains)
  \/ IsSupportedDomainInNetwork("c1", RawDomains)
  \/ ServiceName("c1", RawDomains)
  \/ GetAllKeys("c1", RawDomains)
  \/ Settle("c1")
  \/ Collect("c1")

Spec == Init /\ [][Next]_vars

(***************************************************************************)
(* Two callers with interleaved pending calls on one constructed instance. *)
(***************************************************************************)
ConcDomains(c) == IF c = "c1" THEN {Str(<<" ", "E">>)} ELSE {Str(<<"z">>)}

ConcOptions ==
  [blockchain : {Bool(FALSE), Bool(TRUE),
                 Blockchain(Bool(FALSE), Undefined, Undefined, undef),
                 Blockchain(Undefined, Bool(FALSE), Undefined, undef)},
   api : {undef}]

InitConc ==
  /\ \E opts \in ConcOptions :
       LET i == constructor(opts)
       IN  /\ status = i.status
           /\ blockchain = i.blockchain
           /\ ens = i.ens
           /\ zns = i.zns
           /\ cns = i.cns
           /\ api = i.api
           /\ options = opts
  /\ calls = [c \in Callers |-> Idle]
  /\ norm = NoNorm

NextConc ==
  \E c \in Callers :
    \/ Resolve(c, ConcDomains(c))
    \/ Address(c, ConcDomains(c))
    \/ ChatId(c, ConcDomains(c))
    \/ ChatPk(c, ConcDomains(c))
    \/ IpfsHash(c, ConcDomains(c))
    \/ HttpUrl(c, ConcDomains(c))
    \/ IpfsRedirect(c, ConcDomains(c))
    \/ Email(c, ConcDomains(c))
    \/ AddressOrThrow(c, ConcDomains(c))
    \/ Resolver(c, ConcDomains(c))
    \/ Owner(c, ConcDomains(c))
    \/ Record(c, ConcDomains(c))
    \/ Reverse(c)
    \/ Namehash(c, ConcDomains(c))
    \/ Childhash(c)
    \/ IsValidHash(c, ConcDomains(c))
    \/ IsSupportedDomain(c, ConcDomains(c))
    \/ IsSupportedDomainInNetwork(c, ConcDomains(c))
    \/ ServiceName(c, ConcDomains(c))
    \/ GetAllKeys(c, ConcDomains(c))
    \/ Settle(c)
    \/ Collect(c)

SpecConc == InitConc /\ [][NextConc]_vars

(***************************************************************************)
(* normalizeSource applied to every kind of source.                        *)
(***************************************************************************)
Providers == {undef, "web3", "ethers"}

SourceFields ==
  [url : {undef, "http://x"}, provider : {undef, "own"},
   network : {undef, "mainnet", "bogus"}]

\* the object that carries exactly the fields of r that are set
ObjectOf(r) == Obj([k \in {k \in DOMAIN r : r[k] # undef} |-> r[k]])

NormSources ==
  {Undefined, JNull, Bool(TRUE), Bool(FALSE), Str(""), Str("http://x"),
   Num(7), [t |-> "function"], Obj([provider |-> undef])}
  \cup {ObjectOf(r) : r \in SourceFields}

InitNorm ==
  /\ status = "new"
  /\ blockchain = FALSE
  /\ ens = Undefined
  /\ zns = Undefined
  /\ cns = Undefined
  /\ api = Undefined
  /\ calls = [c \in Callers |-> Idle]
  /\ options = NoOptions
  /\ \E s \in NormSources, p \in Providers :
       norm = [st |-> "input", source |-> s, provider |-> p]

Normalize ==
  /\ norm.st = "input"
  /\ norm' = [st |-> "done", source |-> norm.source,
              provider |-> norm.provider,
              result |-> normalizeSource(norm.source, norm.provider)]
  /\ UNCHANGED <<status, blockchain, ens, zns, cns, api, calls, options>>

NextNorm == Normalize

SpecNorm == InitNorm /\ [][NextNorm]_vars

(***************************************************************************)
(* Reference notions used by the properties, stated without the router's   *)
(* own operators.                                                          *)
(***************************************************************************)
PriorityOrder == <<"ENS", "ZNS", "CNS">>

fieldOf(name) ==
  CASE name = "ENS" -> ens
    [] name = "ZNS" -> zns
    [] name = "CNS" -> cns
    [] name = "UDAPI" -> api

ActiveNames ==
  IF blockchain
  THEN {n \in NamingServiceName : fieldOf(n) # Undefined}
  ELSE {n \in {"UDAPI"} : api # Undefined}

\* the canonical form: drop the spaces around the text, fold the case
canonical(domain) ==
  IF domain.t # "string" THEN Str(<<>>)
  ELSE LET s == domain.v
           keep == {i \in 1..Len(s) : s[i] # " "}
       IN  IF keep = {} THEN Str(<<>>)
           ELSE LET lo == CHOOSE i \in keep : \A j \in keep : i <= j
                    hi == CHOOSE i \in keep : \A j \in keep : j <= i
                IN  Str([i \in 1..(hi - lo + 1) |->
                           IF s[lo + i - 1] = "E" THEN "e" ELSE s[lo + i - 1]])

claims(name, d) ==
  /\ d.t = "string"
  /\ d.v # <<>>
  /\ d.v[Len(d.v)] \in SupportedExts(name)

\* the naming service the priority order gives to a domain, or "none"
expected(domain) ==
  LET d == canonical(domain)
      order == IF blockchain THEN PriorityOrder ELSE <<"UDAPI">>
      hits == {i \in 1..Len(order) :
                 order[i] \in ActiveNames /\ claims(order[i], d)}
  IN  IF hits = {} THEN "none"
      ELSE order[CHOOSE i \in hits : \A j \in hits : i <= j]

\* the naming service a call's selection ended on, read from its events
selectedBy(log) ==
  LET preds == {i \in 1..Len(log) : log[i].ev = "isSupportedDomain"}
  IN  IF preds = {} THEN "none"
      ELSE LET j == CHOOSE i \in preds : \A h \in preds : h <= i
           IN  IF claims(log[j].to, log[j].a1) THEN log[j].to ELSE "none"

opEvents(log) == {i \in 1..Len(log) : log[i].ev # "isSupportedDomain"}

Started == {c \in Callers : calls[c].st # "idle"}

SelectingOps ==
  {"resolve", "address", "chatId", "chatPk", "ipfsHash", "httpUrl",
   "ipfsRedirect", "email", "addressOrThrow", "resolver", "owner", "record",
   "namehash", "isValidHash", "isSupportedDomain",
   "isSupportedDomainInNetwork", "serviceName", "getAllKeys"}

DispatchedOps ==
  {"resolve", "addressOrThrow", "chatId", "chatPk", "ipfsHash", "httpUrl",
   "email", "resolver", "owner", "record", "getAllKeys", "namehash",
   "serviceName"}

(***************************************************************************)
(* C1: in blockchain mode the naming service a call selects for a domain   *)
(* is the first configured one, in the order ENS, ZNS, CNS, that supports  *)
(* the canonicalized domain; every call on the instance selects the same.  *)
(***************************************************************************)
C1_FirstInPriorityOrderSelected ==
  \A c \in Started :
    (blockchain /\ calls[c].op \in SelectingOps) =>
      /\ selectedBy(calls[c].log) = expected(calls[c].a1)
      /\ forwards(calls[c].log) =>
           calls[c].log[Len(calls[c].log)].to = expected(calls[c].a1)

C1_Witness ==
  \E c \in Started :
    /\ blockchain
    /\ calls[c].op \in SelectingOps
    /\ Cardinality({n \in ActiveNames :
                      claims(n, canonical(calls[c].a1))}) >= 2
    /\ forwards(calls[c].log)
    /\ calls[c].log[Len(calls[c].log)].to = "ZNS"

(***************************************************************************)
(* C2: address() never fails with a ResolutionError; it returns null       *)
(* exactly when addressOrThrow() on the same input and the same answer of  *)
(* the naming service fails with a ResolutionError, returns what           *)
(* addressOrThrow() returns otherwise, and propagates any other error.     *)
(***************************************************************************)
C2_AddressNullIffAddressOrThrowFails ==
  \A c \in Started :
    (calls[c].op = "address" /\ calls[c].st = "settled") =>
      LET aot == addressOrThrow(calls[c].a1, calls[c].a2, calls[c].answer)
      IN  /\ ~instanceofResolutionError(calls[c].out)
          /\ calls[c].log = aot.log
          /\ (calls[c].out = Return("null")) <=>
               instanceofResolutionError(aot.out)
          /\ ~instanceofResolutionError(aot.out) => calls[c].out = aot.out

C2_Witness ==
  \E c \in Started :
    /\ calls[c].op = "address"
    /\ calls[c].st = "settled"
    /\ calls[c].a1 = Str(<<" ", "E">>)
    /\ calls[c].answer = ResolutionError("RecordNotFound")
    /\ calls[c].out = Return("null")

(***************************************************************************)
(* C3: on every public entry point that takes a domain, the domain tested  *)
(* by the predicates and the domain forwarded to the selected naming       *)
(* service are the canonical form of the caller's input.                   *)
(***************************************************************************)
C3_EveryEntryPointCanonicalizes ==
  \A c \in Started :
    calls[c].op \in SelectingOps =>
      \A i \in 1..Len(calls[c].log) :
        calls[c].log[i].ev # "isSupportedNetwork" =>
          calls[c].log[i].a1 = canonical(calls[c].a1)

(***************************************************************************)
(* C4: isSupportedDomain(d) is true iff a configured naming service        *)
(* supports the canonical d; a domain-dispatched operation fails with      *)
(* UnsupportedDomain, having invoked nothing but predicates, exactly when  *)
(* no configured naming service supports the canonical d.                  *)
(***************************************************************************)
supported(domain) ==
  \E n \in ActiveNames : claims(n, canonical(domain))

C4_UnsupportedDomainIffNoBackendClaims ==
  \A c \in Started :
    /\ calls[c].op = "isSupportedDomain" =>
         /\ calls[c].out = Return(jsBool(supported(calls[c].a1)))
         /\ opEvents(calls[c].log) = {}
    /\ calls[c].op \in DispatchedOps =>
         /\ (/\ calls[c].st = "settled"
             /\ calls[c].out = ResolutionError("UnsupportedDomain")
             /\ opEvents(calls[c].log) = {})
            <=> ~supported(calls[c].a1)
         /\ supported(calls[c].a1) => opEvents(calls[c].log) # {}

C4_Witness ==
  \E c \in Started :
    /\ blockchain
    /\ ActiveNames = {}
    /\ calls[c].op = "resolver"
    /\ canonical(calls[c].a1) = Str(<<"e">>)
    /\ calls[c].out = ResolutionError("UnsupportedDomain")

(***************************************************************************)
(* C5: the construction modes are mutually exclusive.  With a truthy       *)
(* blockchain option there is no API naming service and each of ENS, ZNS,  *)
(* CNS exists iff its normalized source is not false; with a false         *)
(* blockchain option only the API naming service exists and every          *)
(* predicate and forwarded operation goes to it.                           *)
(***************************************************************************)
optionOf(name) ==
  LET b0 == IF options.blockchain = Undefined THEN Bool(TRUE)
            ELSE options.blockchain
      b  == IF b0 = Bool(TRUE)
            THEN Blockchain(Undefined, Undefined, Undefined, undef) ELSE b0
  IN  CASE name = "ENS" -> normalizeSource(b.ens, b.web3Provider)
        [] name = "ZNS" -> normalizeSource(b.zns, undef)
        [] name = "CNS" -> normalizeSource(b.cns, b.web3Provider)

C5_ModesMutuallyExclusive ==
  status = "ready" =>
    IF options.blockchain # Bool(FALSE)
    THEN /\ blockchain
         /\ api = Undefined
         /\ \A n \in NamingServiceName :
              /\ (fieldOf(n) # Undefined) <=> (optionOf(n) # Bool(FALSE))
              /\ fieldOf(n) # Undefined => fieldOf(n).name = n
         /\ \A c \in Started : \A i \in 1..Len(calls[c].log) :
              /\ calls[c].log[i].to \in NamingServiceName
              /\ fieldOf(calls[c].log[i].to) # Undefined
    ELSE /\ ~blockchain
         /\ ens = Undefined /\ zns = Undefined /\ cns = Undefined
         /\ api # Undefined
         /\ api.name = "UDAPI"
         /\ \A c \in Started : \A i \in 1..Len(calls[c].log) :
              calls[c].log[i].to = "UDAPI"

C5_Witness ==
  \E c \in Started :
    /\ options.blockchain = Bool(FALSE)
    /\ calls[c].op = "address"
    /\ canonical(calls[c].a1) = Str(<<"z">>)
    /\ calls[c].a2 = "ETH"
    /\ forwards(calls[c].log)
    /\ calls[c].log[Len(calls[c].log)].to = "UDAPI"

(***************************************************************************)
(* C6: normalizeSource: absent and true give {provider: p}; false gives    *)
(* the disabled value; a string s gives {url: s} alone; an object gives    *)
(* its own fields plus provider (its own when it carries one, p            *)
(* otherwise); only false gives the disabled value; any other type is a    *)
(* configuration error.                                                    *)
(***************************************************************************)
C6_NormalizeSourceTable ==
  norm.st = "done" =>
    LET s == norm.source
        p == norm.provider
        r == norm.result
    IN  /\ CASE s.t \in {"undefined", "null"} -> r = Obj([provider |-> p])
             [] s.t = "boolean" ->
                  IF s.v THEN r = Obj([provider |-> p]) ELSE r = Bool(FALSE)
             [] s.t = "string" -> r = Obj([url |-> s.v])
             [] s.t = "object" ->
                  /\ r.t = "object"
                  /\ DOMAIN r.f = DOMAIN s.f \cup {"provider"}
                  /\ \A k \in DOMAIN s.f : r.f[k] = s.f[k]
                  /\ "provider" \notin DOMAIN s.f => r.f["provider"] = p
             [] OTHER -> r = ConfigError
        /\ (r.t = "boolean") <=> (s.t = "boolean" /\ ~s.v)

C6_Witness ==
  /\ norm.st = "done"
  /\ norm.source = Str("")
  /\ norm.provider = "web3"
  /\ norm.result = Obj([url |-> ""])

(***************************************************************************)
(* C7: reverse goes to the configured naming service named ENS and         *)
(* childhash to the configured one with the given name, whatever else is   *)
(* configured and without any domain predicate; each fails with            *)
(* NamingServiceDown, invoking nothing, exactly when no configured naming  *)
(* service has the name.                                                   *)
(***************************************************************************)
C7_IdentityTargetedOperations ==
  \A c \in Started :
    calls[c].op \in {"reverse", "childhash"} =>
      LET tag == IF calls[c].op = "reverse" THEN "ENS" ELSE calls[c].a3
      IN  /\ tag \in ActiveNames =>
               calls[c].log = <<Op(tag, calls[c].op, calls[c].a1, calls[c].a2)>>
          /\ (/\ calls[c].st = "settled"
              /\ calls[c].out = ResolutionError("NamingServiceDown")
              /\ calls[c].log = <<>>)
             <=> tag \notin ActiveNames

C7_Witness ==
  \E c \in Started :
    /\ calls[c].op = "reverse"
    /\ blockchain
    /\ ens = Undefined
    /\ zns # Undefined
    /\ calls[c].out = ResolutionError("NamingServiceDown")
    /\ calls[c].log = <<>>

(***************************************************************************)
(* C8: a public call issues at most one forwarded operation, after its     *)
(* selection; selection invokes only predicates of configured naming       *)
(* services; address() issues one address operation, not two.              *)
(***************************************************************************)
C8_AtMostOneForwardedOperation ==
  \A c \in Started :
    /\ \A i \in 1..Len(calls[c].log) :
         /\ i \in opEvents(calls[c].log) => i = Len(calls[c].log)
         /\ i \notin opEvents(calls[c].log) =>
              calls[c].log[i].to \in ActiveNames
    /\ Cardinality(opEvents(calls[c].log)) <= 1

C8_Witness ==
  \E c \in Started :
    /\ calls[c].op = "address"
    /\ calls[c].st = "settled"
    /\ Len(calls[c].log) = 3
    /\ opEvents(calls[c].log) = {3}
    /\ calls[c].log[3].ev = "address"

(***************************************************************************)
(* C9: the instance stays as constructed whatever calls are started,       *)
(* pending, settled or failed, and every call's selection, forwarded       *)
(* operation and outcome are those the call would have alone.              *)
(***************************************************************************)
C9_BackendSetImmutableCallsIndependent ==
  /\ Instance(status, blockchain, ens, zns, cns, api) = constructor(options)
  /\ \A c \in Started :
       /\ calls[c].log =
            Run(calls[c].op, calls[c].a1, calls[c].a2, calls[c].a3, NoAnswer).log
       /\ calls[c].st = "settled" =>
            calls[c].out =
              Run(calls[c].op, calls[c].a1, calls[c].a2, calls[c].a3,
                  calls[c].answer).out
       /\ calls[c].st = "pending" =>
            \A b \in DOMAIN calls[c].cont :
              calls[c].cont[b] =
                Run(calls[c].op, calls[c].a1, calls[c].a2, calls[c].a3, b).out

C9_Witness ==
  /\ calls["c1"].st = "pending"
  /\ calls["c2"].st = "settled"
  /\ calls["c2"].out.k = "throw"
  /\ calls["c2"].log # <<>>
  /\ calls["c1"].log[Len(calls["c1"].log)].to = "ENS"
  /\ calls["c2"].log[Len(calls["c2"].log)].to = "ZNS"

(***************************************************************************)
(* C10: isSupportedDomainInNetwork(d) never throws; it is true iff a       *)
(* naming service is selected for the canonical d and that one supports    *)
(* its network; it implies isSupportedDomain(d); no other naming service's *)
(* network is consulted.                                                   *)
(***************************************************************************)
C10_InNetworkOnlySelectedBackend ==
  \A c \in Started :
    calls[c].op = "isSupportedDomainInNetwork" =>
      LET e == expected(calls[c].a1)
      IN  /\ calls[c].st = "settled"
          /\ calls[c].out.k = "return"
          /\ (calls[c].out = Return("true")) <=>
               (e # "none" /\ serviceSupportsNetwork(fieldOf(e)))
          /\ calls[c].out = Return("true") => supported(calls[c].a1)
          /\ \A i \in opEvents(calls[c].log) :
               /\ calls[c].log[i].ev = "isSupportedNetwork"
               /\ calls[c].log[i].to = e

C10_Witness ==
  \E c \in Started :
    /\ calls[c].op = "isSupportedDomainInNetwork"
    /\ expected(calls[c].a1) = "ENS"
    /\ ~serviceSupportsNetwork(ens)
    /\ zns # Undefined
    /\ serviceSupportsNetwork(zns)
    /\ claims("ZNS", canonical(calls[c].a1))
    /\ calls[c].out = Return("false")

====
